---- MODULE Spec2Model ----
(***************************************************************************)
(* Game thread request queue of game/src/game_thread.rs.                   *)
(*                                                                         *)
(* Async tasks (producers) build a GameThreadRequest, push it on a         *)
(* std::sync::mpsc channel and keep the oneshot receiver; run_event_loop   *)
(* takes the Receiver out of GAME_RECEIVE_REQUESTS, handles the requests   *)
(* one by one and signals each request's `done` channel.  Handlers send    *)
(* GameThreadMessages back through SEND_FROM_GAME_THREAD.                  *)
(*                                                                         *)
(* What game_thread.rs calls but does not define is taken as follows:      *)
(*  - the async side (who fills the two slots, sends requests, waits on    *)
(*    wait_done, receives messages) acts as std::sync::mpsc and tokio's    *)
(*    oneshot and unbounded channels allow;                                *)
(*  - a panic ends the process;                                            *)
(*  - the calls into bw and forge return, and bw.run_game_loop() calls     *)
(*    after_init_game_data once before the game's first step.              *)
(*                                                                         *)
(*  - bw.create_fow_sprite(unit) adds a fow sprite with the unit's        *)
(*    position and unit id; bw's step_game advances the frame count and    *)
(*    may remove units and fow sprites; bw::MAX_STORM_PLAYERS is 8.        *)
(*                                                                         *)
(* Specifications: Spec (the request protocol), FairSpec (the same with    *)
(* every request type and a game thread that keeps running), MsgSpec (with *)
(* the message channel), TeardownSpec (with a teardown of the Receiver),   *)
(* SetupSpec (SetupInfo of every value), TwoLoopSpec (two threads call     *)
(* run_event_loop), MappingSpec and ResultsSpec (the players and the end   *)
(* of the game are drawn), FogSpec (games that take steps, on drawn maps). *)
(* Only FogSpec steps the game: elsewhere bw.run_game_loop() returns after *)
(* after_init_game_data.                                                   *)
(***************************************************************************)
EXTENDS Integers, Sequences, FiniteSets, TLC

\* Async tasks holding a clone of the request Sender.
Producers == {"p1", "p2"}

\* Threads that may call run_event_loop.
LoopThreads == {"game", "second"}

\* Requests submitted in a run that draws its request types from OrderTypes.
MaxReq == 3

\* Requests submitted in a run that draws its request types from RequestTypes.
MaxReqAll == 2

\* Requests submitted in a run that draws its request types from SetupTypes.
MaxSetup == 2

\* Requests submitted in a run in which two threads call run_event_loop.
MaxTwoLoop == 1

\* Requests submitted in a run that draws the game's memory.
MaxGames == 1

\* Steps of the game in a run that steps it.
MaxSteps == 2

\* GameSetupInfo values carried by SetupInfo requests: map.is_replay is an
\* Option<bool>, game_type() an Option whose value may be UMS.
SetupInfos ==
    { [is_replay |-> "Some(true)", game_type |-> "Some(melee)"],
      [is_replay |-> "None", game_type |-> "Some(ums)"] }

\* Every GameSetupInfo as far as is_replay() and is_ums() read it.
SetupInfosAll ==
    [is_replay : {"Some(true)", "Some(false)", "None"},
     game_type : {"Some(melee)", "Some(ums)", "None"}]

\* GameThreadRequestType
PlainTypes == {"Initialize", "RunWndProc", "StartGame", "ExitCleanup"}

NoInfo == [is_replay |-> "-", game_type |-> "-"]

RequestTypes ==
    [tag : PlainTypes, info : {NoInfo}] \cup [tag : {"SetupInfo"}, info : SetupInfos]

\* SetupInfo with every GameSetupInfo, and StartGame.
SetupTypes ==
    [tag : {"StartGame"}, info : {NoInfo}] \cup [tag : {"SetupInfo"}, info : SetupInfosAll]

\* GameSetupInfo of a replay, of a UMS replay and of a game that is neither.
FogInfos ==
    { [is_replay |-> "Some(true)", game_type |-> "Some(melee)"],
      [is_replay |-> "Some(true)", game_type |-> "Some(ums)"],
      [is_replay |-> "Some(false)", game_type |-> "Some(melee)"] }

\* SetupInfo with the FogInfos, and StartGame.
FogTypes ==
    [tag : {"StartGame"}, info : {NoInfo}] \cup [tag : {"SetupInfo"}, info : FogInfos]

\* A handler of one step and the handler of several steps.
OrderTypes == { ty \in RequestTypes : ty.tag \in {"Initialize", "StartGame"} }

\* GameThreadRequest, with the identity (submitting producer, its sequence
\* number) of the oneshot pair that new() created for it.
NoMsg == [p |-> "-", k |-> 0, ty |-> [tag |-> "-", info |-> NoInfo]]

VARIABLES
    slot,         \* GAME_RECEIVE_REQUESTS: "None" or "Some" (holds the Receiver)
    recvLock,     \* holder of GAME_RECEIVE_REQUESTS's mutex: "free" or a thread
    chan,         \* the request channel: "none" (not created), "open", "rx_dropped"
    loopPc,       \* position of each thread in run_event_loop
    queue,        \* envelopes in the request channel, oldest first
    connected,    \* producers that still hold a Sender
    handle,       \* handle[p][k]: the wait_done half of the k-th request of p
    cur,          \* the envelope `msg` of the current loop iteration
    hpc,          \* position inside handle_game_request
    SETUP_INFO,   \* the OnceCell: <<>> or <<info>>
    is_bw,        \* (*bw.game()).is_bw
    sendSlot,     \* SEND_FROM_GAME_THREAD: "None" or "Some"
    listener,     \* receiving end of the message channel: "none", "active", "dropped"
    chanBuf,      \* messages in the message channel, oldest first
    seen,         \* messages the listener has received
    regAt,        \* number of messages published before the listener registered
    log,          \* history of the game thread's steps
    frame_count,      \* (*bw.game()).frame_count, a u32
    player_lose_type, \* (*bw.game()).player_lose_type
    storm_id,         \* storm_id[i + 1]: (*bw.players().add(i)).storm_id
    units,            \* bw.active_units(), in the order of the iteration
    fow,              \* bw.fow_sprites(), oldest first
    mapping,          \* the mapping of the last PlayersRandomized(mapping)
    results           \* the GameThreadResults of the last Results(results)

vars == << slot, recvLock, chan, loopPc, queue, connected, handle,
           cur, hpc, SETUP_INFO, is_bw, sendSlot, listener, chanBuf, seen,
           regAt, log, frame_count, player_lose_type, storm_id, units, fow,
           mapping, results >>

reqVars == << queue, connected, handle >>
loopVars == << slot, recvLock, chan, loopPc, cur, hpc >>
bwVars == << frame_count, player_lose_type, storm_id, units, fow >>
outVars == << mapping, results >>
gameVars == << SETUP_INFO, is_bw, bwVars, outVars >>
msgVars == << sendSlot, listener, chanBuf, seen, regAt >>

----------------------------------------------------------------------------
\* Helpers

\* Requests submitted so far by the producers of S.
RECURSIVE Submitted(_)
Submitted(S) ==
    IF S = {} THEN 0
    ELSE LET p == CHOOSE x \in S : TRUE IN Len(handle[p]) + Submitted(S \ {p})

\* A step of the game thread on request m; x and r say what it did and how it ended.
Ev(e, m, x, r) == [ev |-> e, p |-> m.p, k |-> m.k, x |-> x, r |-> r]

RECURSIVE SelectEv(_, _)
SelectEv(s, kinds) ==
    IF s = <<>> THEN <<>>
    ELSE IF Head(s).ev \in kinds
         THEN <<Head(s)>> \o SelectEv(Tail(s), kinds)
         ELSE SelectEv(Tail(s), kinds)

\* A panic on a thread of the process is fatal to the process.
Aborted == \E t \in LoopThreads : loopPc[t] = "panicked"

----------------------------------------------------------------------------
\* The game's memory, which bw owns and the game thread reads

\* A u32 is kept as two 16-bit limbs << high, low >>.
Limb == 2 ^ 16

U32(hi, lo) == << hi, lo >>

\* u32::MAX
U32Max == U32(Limb - 1, Limb - 1)

\* The ingame player slots that after_init_game_data reads: for i in 0..8
PlayerSlots == 8

\* bw::MAX_STORM_PLAYERS, the length of the mapping of PlayersRandomized
MAX_STORM_PLAYERS == 8

\* The player that owns neutral units: unit.player() == 11
NeutralPlayer == 11

\* Milliseconds of a frame on fastest speed: saturating_mul(42)
FrameMs == 42

\* Option<u8>
None == <<>>
Some(v) == << v >>

\* No GameThreadResults has been captured.
NoResults == [player_lose_type |-> "-", time_ms |-> U32(0, 0)]

\* The process has started: the statics hold what their initializers give.
ProcessStart ==
    /\ slot = "None"
    /\ recvLock = "free"
    /\ chan = "none"
    /\ loopPc = [t \in LoopThreads |-> "idle"]
    /\ queue = <<>>
    /\ connected = {}
    /\ handle = [p \in Producers |-> <<>>]
    /\ cur = NoMsg
    /\ hpc = "-"
    /\ SETUP_INFO = <<>>
    /\ is_bw = 0
    /\ sendSlot = "None"
    /\ listener = "none"
    /\ chanBuf = <<>>
    /\ seen = <<>>
    /\ regAt = 0
    /\ log = <<>>
    /\ fow = <<>>
    /\ mapping = <<>>
    /\ results = NoResults

\* A unit of bw.active_units(): its owner, whether it is a landed building,
\* the position of its sprite and its unit id.
Unit(player, landed, x, y, id) ==
    [player |-> player, landed |-> landed, x |-> x, y |-> y, id |-> id]

\* The game that the process plays when the game's data is not drawn: the
\* players of the first four slots have storm ids 2, 0, 1 and 3, the other
\* slots are unused; the map has a neutral building and a player's building;
\* the game ends at frame 100 and nobody lost to a desync or disconnect.
PlayedStormIds == << 2, 0, 1, 3, 255, 255, 255, 255 >>
PlayedUnits == << Unit(NeutralPlayer, TRUE, 1, 1, 176), Unit(0, TRUE, 2, 2, 106) >>

\* Storm ids of the eight player slots: ids in range, the same id in several
\* slots, ids out of range (8, 255), ids nobody has.
StormIdWorlds ==
    { << a, b, c, d, 255, e, 255, f >> :
        a \in {0, 1, 2}, b \in {0, 1, 2}, c \in {0, 1, 2}, d \in {0, 3},
        e \in {1, 255}, f \in {0, 7, 8, 255} }

\* The process starts; the players of the game it will play are drawn.
MappingInit ==
    /\ ProcessStart
    /\ frame_count = U32(0, 100)
    /\ player_lose_type = 0
    /\ storm_id \in StormIdWorlds
    /\ units = PlayedUnits

\* Maps: no unit; neutral buildings, also two at one place with one unit id
\* or with two; a neutral building in the air; a player's building.
UnitWorlds ==
    LET n1 == Unit(NeutralPlayer, TRUE, 1, 1, 176)
        n2 == Unit(NeutralPlayer, TRUE, 1, 1, 188)
        n3 == Unit(NeutralPlayer, TRUE, 2, 1, 176)
        air == Unit(NeutralPlayer, FALSE, 2, 2, 106)
        own == Unit(0, TRUE, 3, 3, 106)
    IN { <<>>, << n1 >>, << n1, n1 >>, << n1, n2 >>, << air, own >>,
         << own, n3, n1 >>, << n1, air, n1 >> }

\* The process starts; the map of the games it will play is drawn.
FogInit ==
    /\ ProcessStart
    /\ frame_count = U32(0, 0)
    /\ player_lose_type = 0
    /\ storm_id = PlayedStormIds
    /\ units \in UnitWorlds

\* Frame counts about 0, 2^16, u32::MAX / 42 (1560 * 2^16 + 24966) and
\* u32::MAX.
FrameCounts ==
    { U32(hi, lo) : hi \in {0, 1, 1560, 1561, Limb - 1},
                    lo \in {0, 1, 100, 24966, 24967, Limb - 1} }

\* Values of the game's player_lose_type byte.
LoseTypeCodes == {0, 1, 2, 3, 255}

\* The process starts; the frame count and the lose type which the game it
\* will play ends with are drawn.
ResultsInit ==
    /\ ProcessStart
    /\ frame_count \in FrameCounts
    /\ player_lose_type \in LoseTypeCodes
    /\ storm_id = PlayedStormIds
    /\ units = PlayedUnits

Init ==
    /\ ProcessStart
    /\ frame_count = U32(0, 100)
    /\ player_lose_type = 0
    /\ storm_id = PlayedStormIds
    /\ units = PlayedUnits

----------------------------------------------------------------------------
\* Startup and the async side

\* Startup creates the request channel, stores its Receiver in
\* GAME_RECEIVE_REQUESTS and hands clones of the Sender to the async tasks.
InstallReceiver ==
    /\ ~Aborted
    /\ chan = "none"
    /\ recvLock = "free"
    /\ chan' = "open"
    /\ slot' = "Some"
    /\ connected' = Producers
    /\ UNCHANGED << recvLock, loopPc, queue, handle, cur, hpc >>
    /\ UNCHANGED << gameVars, msgVars, log >>

\* Startup creates the message channel and stores its sender half in
\* SEND_FROM_GAME_THREAD; the listener keeps the receiving half.
InstallSender ==
    /\ ~Aborted
    /\ sendSlot = "None"
    /\ sendSlot' = "Some"
    /\ listener' = "active"
    /\ regAt' = Len(SelectEv(log, {"pub"}))
    /\ UNCHANGED << chanBuf, seen, reqVars, loopVars, gameVars, log >>

\* The listener receives the oldest message of the message channel.
ListenerRecv ==
    /\ ~Aborted
    /\ listener = "active"
    /\ chanBuf # <<>>
    /\ seen' = Append(seen, Head(chanBuf))
    /\ chanBuf' = Tail(chanBuf)
    /\ UNCHANGED << sendSlot, listener, regAt, reqVars, loopVars, gameVars, log >>

\* The listener drops the receiving half; what it had not received goes with it.
DropListener ==
    /\ ~Aborted
    /\ listener = "active"
    /\ listener' = "dropped"
    /\ chanBuf' = <<>>
    /\ UNCHANGED << sendSlot, seen, regAt, reqVars, loopVars, gameVars, log >>

\* GameThreadRequest::new: the envelope and the wait_done half of a fresh
\* oneshot channel.
NewRequest(p, k, ty) == [p |-> p, k |-> k, ty |-> ty]

\* Sender::send on the request channel.
Enqueue(q, m) == Append(q, m)

\* A producer builds a request and sends it; it keeps wait_done.  At most
\* max requests are submitted in a run.
Submit(p, ty, max) ==
    /\ ~Aborted
    /\ chan = "open"
    /\ p \in connected
    /\ Submitted(Producers) < max
    /\ queue' = Enqueue(queue, NewRequest(p, Len(handle[p]) + 1, ty))
    /\ handle' = [handle EXCEPT ![p] = Append(@, "pending")]
    /\ UNCHANGED << connected, loopVars, gameVars, msgVars, log >>

\* A producer sends a request after the Receiver was dropped: send returns
\* the request in a SendError, and the producer has its error.
SubmitClosed(p, ty, max) ==
    /\ ~Aborted
    /\ chan = "rx_dropped"
    /\ p \in connected
    /\ Submitted(Producers) < max
    /\ handle' = [handle EXCEPT ![p] = Append(@, "send_error")]
    /\ UNCHANGED << queue, connected, loopVars, gameVars, msgVars, log >>

\* The process tears the consuming end down: it clears GAME_RECEIVE_REQUESTS.
\* The Receiver is dropped, with it the requests in the channel and their
\* `done` halves: whoever waits on one of them gets a RecvError.
DropReceiver ==
    /\ ~Aborted
    /\ slot = "Some"
    /\ recvLock = "free"
    /\ slot' = "None"
    /\ chan' = "rx_dropped"
    /\ queue' = <<>>
    /\ handle' = [p \in Producers |->
                    [k \in DOMAIN handle[p] |->
                      IF /\ handle[p][k] = "pending"
                         /\ \E i \in DOMAIN queue : queue[i].p = p /\ queue[i].k = k
                      THEN "closed"
                      ELSE handle[p][k]]]
    /\ UNCHANGED << recvLock, loopPc, cur, hpc, connected, gameVars, msgVars, log >>

\* A producer stops waiting for a request it submitted: it drops wait_done.
DropHandle(p, k) ==
    /\ ~Aborted
    /\ k \in DOMAIN handle[p]
    /\ handle[p][k] = "pending"
    /\ handle' = [handle EXCEPT ![p][k] = "dropped"]
    /\ UNCHANGED << queue, connected, loopVars, gameVars, msgVars, log >>

\* A producer drops its Sender.
Disconnect(p) ==
    /\ ~Aborted
    /\ p \in connected
    /\ connected' = connected \ {p}
    /\ UNCHANGED << queue, handle, loopVars, gameVars, msgVars, log >>

----------------------------------------------------------------------------
\* run_event_loop

EnterLoop(t) ==
    /\ ~Aborted
    /\ loopPc[t] = "idle"
    /\ loopPc' = [loopPc EXCEPT ![t] = "lock"]
    /\ UNCHANGED << slot, recvLock, chan, cur, hpc, reqVars, gameVars, msgVars, log >>

\* GAME_RECEIVE_REQUESTS.lock(): the guard lives to the end of the function.
LockSlot(t) ==
    /\ ~Aborted
    /\ loopPc[t] = "lock"
    /\ recvLock = "free"
    /\ recvLock' = t
    /\ loopPc' = [loopPc EXCEPT ![t] = "take"]
    /\ UNCHANGED << slot, chan, cur, hpc, reqVars, gameVars, msgVars, log >>

\* A loop that locks the slot for the take only:
\* GAME_RECEIVE_REQUESTS.lock().unwrap().take()
GuardDropped(holder) == "free"

\* The mutex once the Receiver is taken: `receive_requests` is shadowed, not
\* dropped, so the guard lives on and the holder stays the holder.
GuardKept(holder) == holder

\* .take().expect("Channel to receive requests not set?")
TakeReceiver(t) ==
    /\ ~Aborted
    /\ loopPc[t] = "take"
    /\ IF slot = "Some"
       THEN /\ slot' = "None"
            /\ loopPc' = [loopPc EXCEPT ![t] = "recv"]
       ELSE /\ slot' = slot
            /\ loopPc' = [loopPc EXCEPT ![t] = "panicked"]
    /\ recvLock' = GuardKept(recvLock)
    /\ UNCHANGED << chan, cur, hpc, reqVars, gameVars, msgVars, log >>

\* A loop that receives the next message while a handler runs.
AtRecvOrHandling(t) == loopPc[t] \in {"recv", "handle"}

\* The thread is at receive_requests.recv().
AtRecv(t) == loopPc[t] = "recv"

\* A loop that takes the newest message of the channel.
RecvMsgNewest(q) == q[Len(q)]

\* A loop that takes the second oldest message when there is one.
RecvMsgSecond(q) == IF Len(q) > 1 THEN q[2] ELSE Head(q)

\* recv() returns Ok(msg): the oldest message of the channel.
RecvMsg(q) == Head(q)

\* The channel after recv() has returned Ok(msg).
RecvRest(q) == Tail(q)

\* A loop that ends as soon as the channel is empty.
RecvDisconnectedEmpty == queue = <<>>

\* A loop that ends as soon as every Sender is dropped.
RecvDisconnectedEarly == connected = {}

\* recv() returns Err: the channel is empty and every Sender is dropped.
RecvDisconnected == queue = <<>> /\ connected = {}

\* A loop that signals `done` before it calls the handler.
AfterRecvDone == "done"

\* Where the loop goes with Ok(msg): into handle_game_request(msg.request_type).
AfterRecv == "handle"

Recv(t) ==
    /\ ~Aborted
    /\ AtRecv(t)
    /\ queue # <<>>
    /\ cur' = RecvMsg(queue)
    /\ queue' = RecvRest(queue)
    /\ loopPc' = [loopPc EXCEPT ![t] = AfterRecv]
    /\ hpc' = "enter"
    /\ UNCHANGED << slot, recvLock, chan, connected, handle >>
    /\ UNCHANGED << gameVars, msgVars, log >>

\* The while loop ends; wait_async_exit() never returns.
LoopExit(t) ==
    /\ ~Aborted
    /\ AtRecv(t)
    /\ RecvDisconnected
    /\ loopPc' = [loopPc EXCEPT ![t] = "wait_async_exit"]
    /\ UNCHANGED << slot, recvLock, chan, cur, hpc, reqVars, gameVars, msgVars, log >>

\* What msg.done.send(()) does to the wait_done half.
DoneSendHandle(h) == IF h = "pending" THEN "resolved" ELSE h

\* The result of msg.done.send(()), which the loop ignores.
DoneSendResult(h) == IF h = "pending" THEN "Ok" ELSE "Err"

\* A loop that unwraps the result of msg.done.send(()).
AfterDoneSendUnwrap(r) == IF r = "Ok" THEN "recv" ELSE "panicked"

\* A loop that handles one request: `if let` for `while let`.
AfterDoneSendOnce(r) == "wait_async_exit"

\* Where the loop goes after `let _ = msg.done.send(())`.
AfterDoneSend(r) == "recv"

DoneSend(t) ==
    /\ ~Aborted
    /\ loopPc[t] = "done"
    /\ LET h == handle[cur.p][cur.k] IN
         /\ handle' = [handle EXCEPT ![cur.p][cur.k] = DoneSendHandle(h)]
         /\ log' = Append(log, Ev("done", cur, "-", DoneSendResult(h)))
         /\ loopPc' = [loopPc EXCEPT ![t] = AfterDoneSend(DoneSendResult(h))]
    /\ cur' = NoMsg
    /\ hpc' = "-"
    /\ UNCHANGED << slot, recvLock, chan, queue, connected >>
    /\ UNCHANGED << gameVars, msgVars >>

----------------------------------------------------------------------------
\* send_game_msg_to_async

\* GameThreadMessage, with the request whose handler sent it.
Message(tag, m) == [tag |-> tag, p |-> m.p, k |-> m.k]

\* What the call finds: the slot holds no sender ("inactive"), the sender's
\* channel has lost its receiver ("closed": send returns Err), or the message
\* is queued ("sent").
SendOutcome(s, l) ==
    IF s = "Some" THEN (IF l = "active" THEN "sent" ELSE "closed") ELSE "inactive"

\* A channel that keeps the latest message only.
SendBufferLatest(buf, msg, outcome) == IF outcome = "sent" THEN << msg >> ELSE buf

\* The message channel after the call.
SendBuffer(buf, msg, outcome) == IF outcome = "sent" THEN Append(buf, msg) ELSE buf

\* A call that unwraps the result of send and expects a sender in the slot.
SendEndsUnwrap(outcome) == IF outcome = "sent" THEN "return" ELSE "panic"

\* How the call ends: it returns ("return"); `let _ =` drops the Err of send.
SendEnds(outcome) == "return"

\* The game thread, inside the handler of cur, calls send_game_msg_to_async
\* and goes on at `next`.
send_game_msg_to_async(t, tag, next) ==
    LET outcome == SendOutcome(sendSlot, listener) IN
      /\ chanBuf' = SendBuffer(chanBuf, Message(tag, cur), outcome)
      /\ log' = Append(log, Ev("pub", cur, tag, outcome))
      /\ IF SendEnds(outcome) = "return"
         THEN hpc' = next /\ loopPc' = loopPc
         ELSE hpc' = hpc /\ loopPc' = [loopPc EXCEPT ![t] = "panicked"]
      /\ UNCHANGED << sendSlot, listener, seen, regAt >>

----------------------------------------------------------------------------
\* handle_game_request

Handling(t, tag, at) ==
    /\ ~Aborted
    /\ loopPc[t] = "handle"
    /\ cur.ty.tag = tag
    /\ hpc = at

\* The handler returns to run_event_loop.
Return(t) ==
    /\ loopPc' = [loopPc EXCEPT ![t] = "done"]
    /\ hpc' = "ret"

\* A cell that stores the value of every set.
OnceCellOverwrite(cell, info) == << info >>

\* OnceCell::set: stores into an empty cell, Err on a full one.
OnceCellSet(cell, info) == IF cell = <<>> THEN << info >> ELSE cell

\* init_bw: bw.init_sprites(); (*bw.game()).is_bw = 1
init_bw == 1

\* The arms of one step:
\*   Initialize => init_bw()
\*   RunWndProc => forge::run_wnd_proc()
\*   ExitCleanup => bw.clean_up_for_exit()
\*   SetupInfo(info) => SETUP_INFO.set(info), a warning when it was set
HandleRequest(t) ==
    /\ \E tag \in {"Initialize", "RunWndProc", "ExitCleanup", "SetupInfo"} :
         Handling(t, tag, "enter")
    /\ is_bw' = IF cur.ty.tag = "Initialize" THEN init_bw ELSE is_bw
    /\ SETUP_INFO' = IF cur.ty.tag = "SetupInfo"
                     THEN OnceCellSet(SETUP_INFO, cur.ty.info)
                     ELSE SETUP_INFO
    /\ log' = log \o << Ev("start", cur, cur.ty.tag, "-"), Ev("ret", cur, "-", "-") >>
    /\ Return(t)
    /\ UNCHANGED << slot, recvLock, chan, cur, reqVars, msgVars, bwVars, outVars >>

\* StartGame: forge::game_started()
StartGameStarted(t) ==
    /\ Handling(t, "StartGame", "enter")
    /\ hpc' = "run_game_loop"
    /\ log' = log \o << Ev("start", cur, cur.ty.tag, "-"), Ev("game_started", cur, "-", "-") >>
    /\ UNCHANGED << slot, recvLock, chan, loopPc, cur, reqVars, gameVars, msgVars >>

\* is_ums(): SETUP_INFO.get().and_then(|x| x.game_type()).filter(|x| x.is_ums()).is_some()
is_ums == SETUP_INFO # <<>> /\ SETUP_INFO[1].game_type = "Some(ums)"

\* An is_replay that ends in unwrap_or(true).
is_replay_or_true == SETUP_INFO = <<>> \/ SETUP_INFO[1].is_replay \in {"Some(true)", "None"}

\* is_replay(): SETUP_INFO.get().and_then(|x| x.map.is_replay).unwrap_or(false)
is_replay == SETUP_INFO # <<>> /\ SETUP_INFO[1].is_replay = "Some(true)"

\* A mapping that keeps the first slot that declares a storm id.
MappingSetFirst(m, sid, i) ==
    IF sid < MAX_STORM_PLAYERS /\ m[sid + 1] = None
    THEN [m EXCEPT ![sid + 1] = Some(i)]
    ELSE m

\* if let Some(out) = mapping.get_mut(storm_id as usize) { *out = Some(i as u8) }
\* (mapping[n] of the code is m[n + 1])
MappingSet(m, sid, i) ==
    IF sid < MAX_STORM_PLAYERS THEN [m EXCEPT ![sid + 1] = Some(i)] ELSE m

\* for i in 0..8, from slot i on (ids[i + 1] is the storm id of slot i)
RECURSIVE MappingFrom(_, _, _)
MappingFrom(m, ids, i) ==
    IF i = PlayerSlots
    THEN m
    ELSE MappingFrom(MappingSet(m, ids[i + 1], i), ids, i + 1)

\* The mapping that after_init_game_data builds, from [None; MAX_STORM_PLAYERS]
PlayerMapping(ids) == MappingFrom([n \in 1..MAX_STORM_PLAYERS |-> None], ids, 0)

\* unit.player() == 11 && unit.is_landed_building()
NeutralBuilding(u) == u.player = NeutralPlayer /\ u.landed

\* The key of a unit and of a fow sprite: position of the sprite, unit id.
UnitKey(u) == << u.x, u.y, u.id >>
FowKey(f) == << f.x, f.y, f.unit_id >>

\* bw.create_fow_sprite(unit): a fow sprite of the unit's id where the
\* unit's sprite is.
create_fow_sprite(f, u) == Append(f, [x |-> u.x, y |-> u.y, unit_id |-> u.id])

\* for unit in bw.active_units() { if neutral building { create_fow_sprite } }
RECURSIVE CreateNeutralSprites(_, _)
CreateNeutralSprites(f, us) ==
    IF us = <<>>
    THEN f
    ELSE CreateNeutralSprites(
           IF NeutralBuilding(Head(us)) THEN create_fow_sprite(f, Head(us)) ELSE f,
           Tail(us))

\* after_init_game_data, which bw.run_game_loop() calls once it has initialized
\* the game's data, before the first step: it sends the player mapping and,
\* unless the game is UMS, creates the fow sprites of the neutral buildings.
after_init_game_data(t) ==
    /\ Handling(t, "StartGame", "run_game_loop")
    /\ mapping' = PlayerMapping(storm_id)
    /\ send_game_msg_to_async(t, "PlayersRandomized", "stepping")
    /\ fow' = IF ~is_ums THEN CreateNeutralSprites(fow, units) ELSE fow
    /\ UNCHANGED << slot, recvLock, chan, cur, reqVars >>
    /\ UNCHANGED << SETUP_INFO, is_bw, frame_count, player_lose_type, storm_id,
                    units, results >>

\* The product of the u32 a and n, n below 2^15: low limb, and what is above
\* it, which is a limb when the product is a u32.
WideMul(a, n) ==
    LET lo == a[2] * n IN << a[1] * n + (lo \div Limb), lo % Limb >>

\* u32::wrapping_mul
wrapping_mul(a, n) ==
    LET w == WideMul(a, n) IN U32(w[1] % Limb, w[2])

\* u32::saturating_mul: the product, u32::MAX when it is no u32
saturating_mul(a, n) ==
    LET w == WideMul(a, n) IN IF w[1] >= Limb THEN U32Max ELSE U32(w[1], w[2])

\* A table that takes the codes from 0.
PlayerLoseTypeFromZero(code) ==
    CASE code = 0 -> "Some(UnknownChecksumMismatch)"
      [] code = 1 -> "Some(UnknownDisconnect)"
      [] OTHER -> "None"

\* match (*game).player_lose_type { 1 => .., 2 => .., _ => None }
PlayerLoseType(code) ==
    CASE code = 1 -> "Some(UnknownChecksumMismatch)"
      [] code = 2 -> "Some(UnknownDisconnect)"
      [] OTHER -> "None"

\* game_results(): the lose type and the time; victory_state, race and
\* player_has_left are copies of the game's arrays and left out.
game_results ==
    [player_lose_type |-> PlayerLoseType(player_lose_type),
     time_ms |-> saturating_mul(frame_count, FrameMs)]

\* StartGame: bw.run_game_loop() returns; let results = game_results()
StartGameResults(t) ==
    /\ Handling(t, "StartGame", "stepping")
    /\ hpc' = "send_results"
    /\ results' = game_results
    /\ log' = log \o << Ev("loop_end", cur, "-", "-"), Ev("results", cur, "-", "-") >>
    /\ UNCHANGED << slot, recvLock, chan, loopPc, cur, reqVars, msgVars >>
    /\ UNCHANGED << SETUP_INFO, is_bw, bwVars, mapping >>

\* A handler that captures the results and sends nothing.
StartGameNoResults(t) ==
    /\ Handling(t, "StartGame", "send_results")
    /\ hpc' = "hide_window"
    /\ UNCHANGED << slot, recvLock, chan, loopPc, cur, reqVars, gameVars, msgVars, log >>

\* StartGame: send_game_msg_to_async(GameThreadMessage::Results(results))
StartGameSendResults(t) ==
    /\ Handling(t, "StartGame", "send_results")
    /\ send_game_msg_to_async(t, "Results", "hide_window")
    /\ UNCHANGED << slot, recvLock, chan, cur, reqVars, gameVars >>

\* StartGame: forge::hide_window()
StartGameHideWindow(t) ==
    /\ Handling(t, "StartGame", "hide_window")
    /\ log' = log \o << Ev("hide_window", cur, "-", "-"), Ev("ret", cur, "-", "-") >>
    /\ Return(t)
    /\ UNCHANGED << slot, recvLock, chan, cur, reqVars, gameVars, msgVars >>

\* frame_count + 1 of bw's step_game
U32Inc(a) ==
    IF a[2] = Limb - 1 THEN U32((a[1] + 1) % Limb, 0) ELSE U32(a[1], a[2] + 1)

\* The sequence f without its k-th element.
Without(f, k) == SubSeq(f, 1, k - 1) \o SubSeq(f, k + 1, Len(f))

\* bw's step_game inside bw.run_game_loop(): the game advances a frame; the
\* first active unit may die; bw may remove a fow sprite that is no longer
\* in fog.  Then bw calls after_step_game.
step_game(t) ==
    /\ Handling(t, "StartGame", "stepping")
    /\ frame_count[1] = 0 /\ frame_count[2] < MaxSteps
    /\ frame_count' = U32Inc(frame_count)
    /\ units' \in {units} \cup (IF units = <<>> THEN {} ELSE {Tail(units)})
    /\ fow' \in {fow} \cup { Without(fow, k) : k \in DOMAIN fow }
    /\ hpc' = "after_step"
    /\ UNCHANGED << slot, recvLock, chan, loopPc, cur, reqVars, msgVars, log >>
    /\ UNCHANGED << SETUP_INFO, is_bw, player_lose_type, storm_id, outVars >>

\* A hook that reconciles in every game that is not UMS.
ReconcilesNotUms == ~is_ums

\* if is_replay() && !is_ums()
Reconciles == is_replay /\ ~is_ums

\* The keys of bw.fow_sprites(): the FxHashSet of the first loop.
FowKeys(f) == { FowKey(f[i]) : i \in DOMAIN f }

\* A set whose insert says "new" of every key.
FowInsertAlways(keys, k) == TRUE

\* fow_sprites.insert(key): true when the set did not have the key
FowInsert(keys, k) == k \notin keys

\* The second loop, over the units us left, with the fow sprites f and the
\* hash set keys so far.
RECURSIVE Reconcile(_, _, _)
Reconcile(f, keys, us) ==
    IF us = <<>>
    THEN f
    ELSE LET u == Head(us) IN
           IF NeutralBuilding(u)
           THEN Reconcile(
                  IF FowInsert(keys, UnitKey(u)) THEN create_fow_sprite(f, u) ELSE f,
                  keys \cup {UnitKey(u)},
                  Tail(us))
           ELSE Reconcile(f, keys, Tail(us))

\* The fow sprites after after_step_game.
AfterStepFow(f, us) == IF Reconciles THEN Reconcile(f, FowKeys(f), us) ELSE f

\* after_step_game, which bw calls after step_game.
after_step_game(t) ==
    /\ Handling(t, "StartGame", "after_step")
    /\ fow' = AfterStepFow(fow, units)
    /\ hpc' = "stepping"
    /\ log' = Append(log, Ev("after_step_game", cur,
                             IF Len(fow') > Len(fow) THEN "created" ELSE "-", "-"))
    /\ UNCHANGED << slot, recvLock, chan, loopPc, cur, reqVars, msgVars >>
    /\ UNCHANGED << SETUP_INFO, is_bw, frame_count, player_lose_type, storm_id,
                    units, outVars >>

handle_game_request(t) ==
    \/ HandleRequest(t)
    \/ StartGameStarted(t)
    \/ after_init_game_data(t)
    \/ StartGameResults(t)
    \/ StartGameSendResults(t)
    \/ StartGameHideWindow(t)

----------------------------------------------------------------------------
\* The process

run_event_loop(t) ==
    \/ EnterLoop(t)
    \/ LockSlot(t)
    \/ TakeReceiver(t)
    \/ Recv(t)
    \/ handle_game_request(t)
    \/ DoneSend(t)
    \/ LoopExit(t)

\* The receiving side of the message channel.
Listener ==
    \/ InstallSender
    \/ ListenerRecv
    \/ DropListener

\* The request protocol: producers submit, stop waiting and disconnect while
\* the game thread runs the loop; the message channel is never set up.
Next ==
    \/ InstallReceiver
    \/ \E p \in Producers, ty \in OrderTypes : Submit(p, ty, MaxReq)
    \/ \E p \in Producers, k \in 1..MaxReq : DropHandle(p, k)
    \/ \E p \in Producers : Disconnect(p)
    \/ run_event_loop("game")

Spec == Init /\ [][Next]_vars

\* The request protocol with every request type, and the message channel.
MsgNext ==
    \/ InstallReceiver
    \/ \E p \in Producers, ty \in RequestTypes : Submit(p, ty, MaxReqAll)
    \/ \E p \in Producers : Disconnect(p)
    \/ Listener
    \/ run_event_loop("game")

MsgSpec == Init /\ [][MsgNext]_vars

\* The request protocol with every request type; every producer waits for its
\* requests.  The game thread is a thread of its own: a step it can take, it
\* takes; every call a handler makes returns.
FairNext ==
    \/ InstallReceiver
    \/ \E p \in Producers, ty \in RequestTypes : Submit(p, ty, MaxReqAll)
    \/ \E p \in Producers : Disconnect(p)
    \/ run_event_loop("game")

FairSpec == Init /\ [][FairNext]_vars /\ WF_vars(run_event_loop("game"))

\* The request protocol with a process that may tear the consuming end down
\* before the game thread has taken it.
TeardownNext ==
    \/ InstallReceiver
    \/ \E p \in Producers, ty \in RequestTypes : Submit(p, ty, MaxReqAll)
    \/ \E p \in Producers, ty \in RequestTypes : SubmitClosed(p, ty, MaxReqAll)
    \/ \E p \in Producers : Disconnect(p)
    \/ DropReceiver
    \/ run_event_loop("game")

TeardownSpec == Init /\ [][TeardownNext]_vars

\* The network layer's task supplies SetupInfo, any number of times with any
\* value, and starts games.
SetupNext ==
    \/ InstallReceiver
    \/ \E ty \in SetupTypes : Submit("p1", ty, MaxSetup)
    \/ \E p \in Producers : Disconnect(p)
    \/ run_event_loop("game")

SetupSpec == Init /\ [][SetupNext]_vars

\* A task has the game thread initialized and starts games.
PlayNext ==
    \/ InstallReceiver
    \/ \E ty \in OrderTypes : Submit("p1", ty, MaxGames)
    \/ \E p \in Producers : Disconnect(p)
    \/ run_event_loop("game")

\* The games of every StormIdWorlds.
MappingSpec == MappingInit /\ [][PlayNext]_vars

\* The games of every FrameCounts and LoseTypeCodes.
ResultsSpec == ResultsInit /\ [][PlayNext]_vars

\* The network layer's task supplies SetupInfo and starts games on the maps
\* of UnitWorlds; the games take steps.
FogNext ==
    \/ InstallReceiver
    \/ \E ty \in FogTypes : Submit("p1", ty, MaxSetup)
    \/ \E p \in Producers : Disconnect(p)
    \/ run_event_loop("game")
    \/ step_game("game")
    \/ after_step_game("game")

FogSpec == FogInit /\ [][FogNext]_vars

\* Two threads of the process call run_event_loop.
TwoLoopNext ==
    \/ InstallReceiver
    \/ \E p \in Producers, ty \in OrderTypes : Submit(p, ty, MaxTwoLoop)
    \/ \E p \in Producers : Disconnect(p)
    \/ \E t \in LoopThreads : run_event_loop(t)

TwoLoopSpec == Init /\ [][TwoLoopNext]_vars

----------------------------------------------------------------------------
\* Properties of the request protocol

\* The handler calls, handler returns and completion signals so far.
Started == SelectEv(log, {"start"})
Returned == SelectEv(log, {"ret"})
Acked == SelectEv(log, {"done"})

SameReq(a, b) == a.p = b.p /\ a.k = b.k

\* Events of s on request (p, k).
Count(s, p, k) == Cardinality({ i \in DOMAIN s : s[i].p = p /\ s[i].k = k })

\* C1: the completions of one producer's requests are signalled in the order
\* in which the producer submitted them.
C1_CompletionOrder ==
    LET a == Acked IN
      \A i, j \in DOMAIN a :
        (i < j /\ a[i].p = a[j].p) => a[i].k < a[j].k

\* Two requests of one producer have been signalled, a request of another
\* producer between them.
C1_Witness ==
    LET a == Acked IN
      \E i, j, l \in DOMAIN a :
        i < j /\ j < l /\ a[i].p = a[l].p /\ a[j].p # a[i].p

\* C2: with several producers, the handler runs for each producer's requests
\* in that producer's submission order.
C2_HandlerOrder ==
    LET s == Started IN
      \A p \in Producers :
        \A i, j \in DOMAIN s :
          (i < j /\ s[i].p = p /\ s[j].p = p) => s[i].k < s[j].k

\* The handler runs for the second request of a producer; between the two it
\* ran for a request of the other producer.
C2_Witness ==
    LET s == Started IN
      /\ Len(s) = 3
      /\ s[1].p = s[3].p /\ s[2].p # s[1].p
      /\ loopPc["game"] = "handle" /\ hpc = "stepping"

\* C3: every request sent is in the channel, held by the loop or handled,
\* exactly once in all; the loop ends only on an empty channel without Senders.
C3_ExactlyOnce ==
    LET s == Started IN
      /\ \A p \in Producers :
           \A k \in DOMAIN handle[p] :
             Count(queue, p, k) + Count(s, p, k)
               + (IF cur.p = p /\ cur.k = k /\ Count(s, p, k) = 0 THEN 1 ELSE 0) = 1
      /\ \A i \in DOMAIN s : s[i].k \in DOMAIN handle[s[i].p]
      /\ loopPc["game"] = "wait_async_exit" =>
           /\ queue = <<>>
           /\ connected = {}
           /\ Len(s) = Submitted(Producers)

\* The loop has ended after it handled every request, several of them.
C3_Witness ==
    /\ loopPc["game"] = "wait_async_exit"
    /\ Len(Started) = MaxReq

\* C4: a completion is signalled at most once, after the handler of its
\* request has returned, and once the loop is back at recv() every handled
\* request has been signalled; a handle resolves only by that signal.
C4_DoneAfterHandler ==
    LET a == Acked IN
      /\ \A i, j \in DOMAIN a : SameReq(a[i], a[j]) => i = j
      /\ \A i \in DOMAIN log :
           log[i].ev = "done" =>
             /\ i > 2
             /\ log[i-1].ev = "ret" /\ SameReq(log[i-1], log[i])
             /\ \E j \in 1..(i-2) : log[j].ev = "start" /\ SameReq(log[j], log[i])
      /\ loopPc["game"] \in {"recv", "wait_async_exit"} => Len(a) = Len(Started)
      /\ loopPc["game"] = "handle" => Count(a, cur.p, cur.k) = 0
      /\ \A p \in Producers :
           \A k \in DOMAIN handle[p] :
             handle[p][k] = "resolved" => Count(a, p, k) = 1

\* A handler is running, its request not signalled, after an earlier request
\* was signalled to a waiting producer.
C4_Witness ==
    /\ loopPc["game"] = "handle"
    /\ hpc = "run_game_loop"
    /\ handle[cur.p][cur.k] = "pending"
    /\ \E i \in DOMAIN log : log[i].ev = "done" /\ log[i].r = "Ok"

\* C5: at most one handler runs at a time: a handler is called only as the
\* first step of the loop or right after the completion signal of the
\* request before it.
C5_OneHandler ==
    /\ Len(Started) - Len(Returned) \in {0, 1}
    /\ Len(Started) - Len(Returned) = 1 =>
         loopPc["game"] = "handle" /\ hpc # "enter"
    /\ \A i \in DOMAIN log :
         (log[i].ev = "start" /\ i > 1) => log[i-1].ev = "done"

\* A handler runs while two requests of different producers are queued.
C5_Witness ==
    /\ loopPc["game"] = "handle"
    /\ hpc = "run_game_loop"
    /\ \E i, j \in DOMAIN queue : queue[i].p # queue[j].p

\* C9: when the producer has dropped wait_done, the handler has still run to
\* its end before the completion signal, the failed signal is ignored and
\* the loop goes back to recv() and on to the next request.
C9_DroppedHandle ==
    \A i \in DOMAIN log :
      (log[i].ev = "done" /\ log[i].r = "Err") =>
        /\ i > 1 /\ log[i-1].ev = "ret" /\ SameReq(log[i-1], log[i])
        /\ handle[log[i].p][log[i].k] = "dropped"
        /\ i < Len(log) => log[i+1].ev = "start"
        /\ i = Len(log) =>
             \/ loopPc["game"] \in {"recv", "wait_async_exit"} /\ cur = NoMsg
             \/ loopPc["game"] = "handle" /\ hpc = "enter"

\* The completion signal of a dropped handle failed and the handler of the
\* next request has been called.
C9_Witness ==
    \E i \in DOMAIN log :
      /\ log[i].ev = "done" /\ log[i].r = "Err"
      /\ i < Len(log) /\ log[i+1].ev = "start"

----------------------------------------------------------------------------
\* Properties of the message channel

\* The messages handed to send_game_msg_to_async so far, oldest first.
RECURSIVE Published(_)
Published(s) ==
    IF s = <<>> THEN <<>>
    ELSE IF Head(s).ev = "pub"
         THEN << [tag |-> Head(s).x, p |-> Head(s).p, k |-> Head(s).k] >>
                \o Published(Tail(s))
         ELSE Published(Tail(s))

\* What the listener has received and what waits for it in the channel.
Visible == seen \o chanBuf

\* C7: a listener that registered before some messages were sent, and has
\* not dropped its receiver, sees exactly the messages sent since it
\* registered, in the order they were sent; one that has dropped its receiver
\* received a prefix of them.
C7_ListenerSeesAll ==
    LET sent == Published(log)
        since == SubSeq(sent, regAt + 1, Len(sent))
    IN /\ listener = "active" => Visible = since
       /\ listener = "dropped" =>
            /\ chanBuf = <<>>
            /\ Len(seen) <= Len(since)
            /\ seen = SubSeq(since, 1, Len(seen))
       /\ listener = "none" => Visible = <<>>

\* The listener has received the two messages of one StartGame request, after
\* a message sent before it registered.
C7_Witness ==
    /\ listener = "active"
    /\ regAt > 0
    /\ Len(seen) = 2
    /\ seen[1].tag = "PlayersRandomized"
    /\ seen[2].tag = "Results"
    /\ seen[1].p = seen[2].p /\ seen[1].k = seen[2].k

\* C8: a message sent while the slot holds no sender, or after the receiver
\* was dropped, is discarded, and the call returns: the handler goes on where
\* it was and the loop goes on with the next requests.
C8_NoListener ==
    \A i \in DOMAIN log :
      (log[i].ev = "pub" /\ log[i].r \in {"inactive", "closed"}) =>
        /\ \A j \in DOMAIN Visible :
             ~ ( /\ Visible[j].tag = log[i].x
                 /\ Visible[j].p = log[i].p
                 /\ Visible[j].k = log[i].k )
        /\ i < Len(log) =>
             /\ SameReq(log[i+1], log[i])
             /\ log[i+1].ev \in {"loop_end", "hide_window"}
        /\ i = Len(log) =>
             /\ loopPc["game"] = "handle"
             /\ SameReq(cur, log[i])
             /\ hpc = (IF log[i].x = "Results" THEN "hide_window" ELSE "stepping")

\* Messages were sent into an empty slot and into a channel without receiver,
\* and the loop has gone on to call the handler of a later request.
C8_Witness ==
    \E i, j, l \in DOMAIN log :
      /\ i < j /\ j < l
      /\ log[i].ev = "pub" /\ log[i].r = "inactive"
      /\ log[j].ev = "pub" /\ log[j].r = "closed"
      /\ log[l].ev = "start"

----------------------------------------------------------------------------
\* Progress of the request protocol

\* Request (p, k) has been sent.
Sent(p, k) == k \in DOMAIN handle[p]

\* The completion of request (p, k) has been signalled, once, and its handle
\* is resolved unless the producer dropped it.
Acknowledged(p, k) ==
    /\ Sent(p, k)
    /\ Count(Acked, p, k) = 1
    /\ Count(Returned, p, k) = 1
    /\ handle[p][k] \in {"resolved", "dropped"}

\* Every request sent so far has been acknowledged.
AllAcknowledged ==
    \A p \in Producers : \A k \in DOMAIN handle[p] : Acknowledged(p, k)

----------------------------------------------------------------------------
\* Teardown of the consuming end

\* Request (p, k) is in the channel or held by the loop, its completion not
\* yet signalled.
InFlight(p, k) ==
    \/ \E i \in DOMAIN queue : queue[i].p = p /\ queue[i].k = k
    \/ cur.p = p /\ cur.k = k

\* C10: no producer waits on a request that will not be handled: while a
\* producer waits, the Receiver lives, the loop has not left its receive loop
\* and the request is in the channel or with the loop; a request sent after
\* the Receiver was dropped is not queued, and its producer has its error.
C10_NoHang ==
    /\ \A p \in Producers :
         \A k \in DOMAIN handle[p] :
           handle[p][k] = "pending" =>
             /\ chan = "open"
             /\ loopPc["game"] # "wait_async_exit"
             /\ InFlight(p, k)
    /\ chan = "rx_dropped" => queue = <<>>
    /\ \A p \in Producers :
         \A k \in DOMAIN handle[p] :
           handle[p][k] = "send_error" => Count(log, p, k) = 0 /\ ~InFlight(p, k)

\* The Receiver was dropped with a request in the channel, whose producer got
\* a RecvError, and a request sent after that got a SendError.
C10_Witness ==
    /\ chan = "rx_dropped"
    /\ \E p \in Producers, k \in 1..MaxReqAll :
         Sent(p, k) /\ handle[p][k] = "closed"
    /\ \E p \in Producers, k \in 1..MaxReqAll :
         Sent(p, k) /\ handle[p][k] = "send_error"

----------------------------------------------------------------------------
\* Properties of SETUP_INFO

\* The step is the handler of a SetupInfo request.
SetupInfoHandled ==
    /\ Len(log') > Len(log)
    /\ log'[Len(log) + 1].ev = "start"
    /\ log'[Len(log) + 1].x = "SetupInfo"

\* C11: SETUP_INFO is written once.  The handler of a SetupInfo request
\* stores the request's value when the cell is empty; it leaves a full cell
\* as it is, whatever value the request carries, and returns to the loop; no
\* other step changes the cell.  So the cell holds the value of the first
\* SetupInfo request handled.
C11_WriteOnce ==
    [][ /\ SETUP_INFO # <<>> => SETUP_INFO' = SETUP_INFO
        /\ (SETUP_INFO = <<>> /\ SetupInfoHandled) => SETUP_INFO' = << cur.ty.info >>
        /\ (SETUP_INFO = <<>> /\ ~SetupInfoHandled) => SETUP_INFO' = <<>>
        /\ SetupInfoHandled => (loopPc'["game"] = "done" /\ ~Aborted') ]_vars

\* The handler of a SetupInfo request has returned; the request carries
\* another value than the one stored, which an earlier request set.
C11_Witness ==
    /\ loopPc["game"] = "done"
    /\ cur.ty.tag = "SetupInfo"
    /\ SETUP_INFO # <<>>
    /\ SETUP_INFO[1] # cur.ty.info
    /\ \E i \in DOMAIN handle["p1"] : handle["p1"][i] = "resolved"

----------------------------------------------------------------------------
\* Properties of GAME_RECEIVE_REQUESTS

\* Thread t has started run_event_loop.
LoopStarted(t) == loopPc[t] # "idle"

\* C12: starting run_event_loop on an empty GAME_RECEIVE_REQUESTS is fatal.
\* The process aborts before any request is handled, and since the first
\* start empties the slot, a run in which two threads have started the loop
\* does not come to rest before the process has aborted.
C12_EmptySlotFatal ==
    /\ Aborted => (Started = <<>> /\ cur = NoMsg)
    /\ ((\A t \in LoopThreads : LoopStarted(t)) /\ ~ENABLED TwoLoopNext) => Aborted

\* Thread t is inside run_event_loop with the Receiver it took.
HasReceiver(t) == loopPc[t] \in {"recv", "handle", "done", "wait_async_exit"}

\* C20: the thread that has locked GAME_RECEIVE_REQUESTS in run_event_loop
\* holds the lock in every later state, while a handler runs and after the
\* receive loop has ended as well; the slot is empty from the take on; a
\* thread that comes to lock the slot while it is held makes no step, nor
\* does the startup code that would store a Receiver.
C20_GuardHeldForever ==
    [][ /\ recvLock # "free" => recvLock' = recvLock
        /\ \A t \in LoopThreads :
             HasReceiver(t) => (recvLock = t /\ slot = "None" /\ slot' = "None")
        /\ \A t \in LoopThreads :
             (loopPc[t] = "lock" /\ recvLock # "free") => loopPc'[t] = "lock"
        /\ (chan = "none" /\ recvLock # "free") => chan' = "none" ]_vars

\* The game thread has handled a request and left the receive loop; the
\* second thread has called run_event_loop and waits for the lock.
C20_Witness ==
    /\ loopPc["game"] = "wait_async_exit"
    /\ loopPc["second"] = "lock"
    /\ recvLock = "game"
    /\ Acked # <<>>

----------------------------------------------------------------------------
\* Properties of the player mapping

\* The slots that declare storm id n.
Declaring(n) == { i \in 0..(PlayerSlots - 1) : storm_id[i + 1] = n }

\* The highest of a set of slots.
Highest(S) == CHOOSE i \in S : \A j \in S : j <= i

\* C13: once PlayersRandomized is sent, its mapping has an entry for every
\* storm id in range and no other: Some(i) for the highest slot i that
\* declares the id, None when no slot declares it; slots with an id out of
\* range add nothing.  The ids 2, 0, 1, 3 in the first four slots and no id
\* in range in the others give 0 -> 1, 1 -> 2, 2 -> 0, 3 -> 3, None elsewhere.
C13_PlayerMapping ==
    mapping # <<>> =>
      /\ DOMAIN mapping = 1..MAX_STORM_PLAYERS
      /\ \A n \in 0..(MAX_STORM_PLAYERS - 1) :
           mapping[n + 1] = IF Declaring(n) = {} THEN None ELSE Some(Highest(Declaring(n)))
      /\ (/\ SubSeq(storm_id, 1, 4) = << 2, 0, 1, 3 >>
          /\ \A i \in 5..PlayerSlots : storm_id[i] >= MAX_STORM_PLAYERS)
         => mapping = << Some(1), Some(2), Some(0), Some(3), None, None, None, None >>

\* The mapping is sent for slots of which three declare storm id 1, one
\* declares an id out of range and none declares storm id 2.
C13_Witness ==
    /\ mapping # <<>>
    /\ Cardinality(Declaring(1)) = 3
    /\ Declaring(2) = {}
    /\ Declaring(8) # {}
    /\ \E i \in DOMAIN log : log[i].ev = "pub" /\ log[i].x = "PlayersRandomized"

----------------------------------------------------------------------------
\* Properties of the results

\* a <= b for u32s
U32Le(a, b) == a[1] < b[1] \/ (a[1] = b[1] /\ a[2] <= b[2])

\* Quotient and remainder of the u32 a by n, n below 2^15, by long division.
U32Div(a, n) == U32(a[1] \div n, ((a[1] % n) * Limb + a[2]) \div n)
U32Rem(a, n) == ((a[1] % n) * Limb + a[2]) % n

\* frame_count * 42 is a u32.
ProductFits == U32Le(frame_count, U32Div(U32Max, FrameMs))

\* C14: the time_ms of the captured results is frame_count * 42 when that
\* is a u32 (4200 for 100 frames, 0 for none) and u32::MAX when it is not:
\* it is never the product modulo 2^32, which is even and u32::MAX is not.
C14_TimeMs ==
    results # NoResults =>
      LET ms == results.time_ms IN
        /\ ms[1] \in 0..(Limb - 1) /\ ms[2] \in 0..(Limb - 1)
        /\ ProductFits => (U32Rem(ms, FrameMs) = 0 /\ U32Div(ms, FrameMs) = frame_count)
        /\ ~ProductFits => ms = U32Max
        /\ frame_count = U32(0, 100) => ms = U32(0, 4200)
        /\ frame_count = U32(0, 0) => ms = U32(0, 0)

\* Results are captured at a frame count whose product with 42 is no u32
\* and, modulo 2^32, below the frame count: 1561 * 2^16.
C14_Witness ==
    /\ results # NoResults
    /\ frame_count = U32(1561, 0)
    /\ ~ProductFits
    /\ \E i \in DOMAIN log : log[i].ev = "results"

\* C16: the captured results' lose type is UnknownChecksumMismatch for code
\* 1 of the game, UnknownDisconnect for code 2, None for 0 and the rest.
C16_LoseType ==
    results # NoResults =>
      /\ player_lose_type = 1 <=> results.player_lose_type = "Some(UnknownChecksumMismatch)"
      /\ player_lose_type = 2 <=> results.player_lose_type = "Some(UnknownDisconnect)"
      /\ player_lose_type \notin {1, 2} <=> results.player_lose_type = "None"

\* Results are captured in a game whose lose type code is 0.
C16_Witness ==
    /\ results # NoResults
    /\ player_lose_type = 0
    /\ results.player_lose_type = "None"
    /\ \E i \in DOMAIN log : log[i].ev = "pub" /\ log[i].x = "Results"

----------------------------------------------------------------------------
\* Properties of the fow sprites

\* The step is an invocation of after_step_game.
AfterStepGame == hpc = "after_step" /\ hpc' = "stepping"

\* The fow sprites that the step has created.
Created == { k \in DOMAIN fow' : k > Len(fow) }

\* C15: after_step_game is idempotent.  An invocation on the units and fow
\* sprites that an invocation has left creates no fow sprite; the fow
\* sprites that one invocation creates have keys (position, unit id) that no
\* fow sprite had before it, and no two of them have the same key.
C15_Idempotent ==
    [][ AfterStepGame =>
          /\ AfterStepFow(fow', units') = fow'
          /\ \A k \in Created : FowKey(fow'[k]) \notin FowKeys(fow)
          /\ \A k, l \in Created : FowKey(fow'[k]) = FowKey(fow'[l]) => k = l ]_vars

\* after_step_game has created a fow sprite in a replay in which two
\* neutral buildings have the same key.
C15_Witness ==
    /\ log # <<>>
    /\ log[Len(log)].ev = "after_step_game"
    /\ log[Len(log)].x = "created"
    /\ \E i, j \in DOMAIN units :
         /\ i < j
         /\ NeutralBuilding(units[i]) /\ NeutralBuilding(units[j])
         /\ UnitKey(units[i]) = UnitKey(units[j])

\* The stored GameSetupInfo says replay, and does not say UMS.
ReplayNotUms ==
    /\ SETUP_INFO # <<>>
    /\ SETUP_INFO[1].is_replay = "Some(true)"
    /\ SETUP_INFO[1].game_type # "Some(ums)"

\* C18: after_step_game leaves the fow sprites as they are unless the game
\* is a replay and not UMS, so also when SETUP_INFO is empty.  It removes no
\* fow sprite and every fow sprite it creates has the key of an active unit
\* that is a landed building of player 11.
C18_FrameEffect ==
    [][ AfterStepGame =>
          /\ ~ReplayNotUms => fow' = fow
          /\ Len(fow') >= Len(fow) /\ SubSeq(fow', 1, Len(fow)) = fow
          /\ \A k \in Created :
               \E i \in DOMAIN units :
                 /\ units[i].player = 11 /\ units[i].landed
                 /\ << units[i].x, units[i].y, units[i].id >> = FowKey(fow'[k]) ]_vars

\* after_step_game has run in the game of a process that has no SetupInfo
\* and has left a neutral building without a fow sprite.
C18_Witness ==
    /\ log # <<>>
    /\ log[Len(log)].ev = "after_step_game"
    /\ SETUP_INFO = <<>>
    /\ \E i \in DOMAIN units :
         NeutralBuilding(units[i]) /\ UnitKey(units[i]) \notin FowKeys(fow)

----------------------------------------------------------------------------
\* Properties of the StartGame handler

\* Event i - 1 is of one of the kinds and of the same request as event i.
Before(i, kinds) == log[i - 1].ev \in kinds /\ SameReq(log[i - 1], log[i])

\* C17: the handler of StartGame marks the game started, runs the game loop
\* to its end, captures the results, publishes Results once and hides the
\* window, in this order, before the request's completion is signalled;
\* Results is published by the handler of a StartGame request only.  Each
\* step of the handler follows the step before it, for the same request.
C17_StartGameOrder ==
    \A i \in DOMAIN log :
      /\ log[i].ev = "game_started" =>
           (i > 1 /\ Before(i, {"start"}) /\ log[i - 1].x = "StartGame")
      /\ (log[i].ev = "start" /\ log[i].x = "StartGame") =>
           (i < Len(log) /\ log[i + 1].ev = "game_started")
      /\ (log[i].ev = "pub" /\ log[i].x = "PlayersRandomized") =>
           (i > 1 /\ Before(i, {"game_started"}))
      /\ log[i].ev = "after_step_game" =>
           (i > 1 /\ Before(i, {"pub", "after_step_game"}) /\ log[i - 1].x # "Results")
      /\ log[i].ev = "loop_end" =>
           (i > 1 /\ Before(i, {"pub", "after_step_game"}) /\ log[i - 1].x # "Results")
      /\ log[i].ev = "results" => (i > 1 /\ Before(i, {"loop_end"}))
      /\ (log[i].ev = "pub" /\ log[i].x = "Results") => (i > 1 /\ Before(i, {"results"}))
      /\ log[i].ev = "hide_window" =>
           (i > 1 /\ Before(i, {"pub"}) /\ log[i - 1].x = "Results")
      /\ log[i].ev = "ret" =>
           /\ i > 1 /\ Before(i, {"hide_window", "start"})
           /\ log[i - 1].ev = "start" => log[i - 1].x # "StartGame"
      /\ log[i].ev = "done" => (i > 1 /\ Before(i, {"ret"}))

\* The completion of a StartGame request is signalled, after its Results
\* went to the listener; the handler of a request of another type has run.
C17_Witness ==
    /\ \E i \in DOMAIN log :
         /\ i > 3
         /\ log[i].ev = "done"
         /\ log[i - 3].ev = "pub" /\ log[i - 3].x = "Results" /\ log[i - 3].r = "sent"
    /\ \E j \in DOMAIN log : log[j].ev = "start" /\ log[j].x # "StartGame"

----------------------------------------------------------------------------
\* Properties of is_replay and is_ums

\* C19: is_replay() and is_ums() are false as long as SETUP_INFO is empty;
\* once it is set, no step changes what they return, the handlers of
\* further SetupInfo requests included.
C19_StableQueries ==
    [][ /\ SETUP_INFO = <<>> => (~is_replay /\ ~is_ums)
        /\ SETUP_INFO # <<>> => (is_replay' = is_replay /\ is_ums' = is_ums) ]_vars

\* SETUP_INFO says replay and UMS; the handler of a SetupInfo request that
\* says neither has returned.
C19_Witness ==
    /\ is_replay /\ is_ums
    /\ loopPc["game"] = "done"
    /\ cur.ty.tag = "SetupInfo"
    /\ cur.ty.info.is_replay = "Some(false)"
    /\ cur.ty.info.game_type = "Some(melee)"

====
